---- MODULE Spec2Model ----
(***************************************************************************)
(* Logi Circle (legacy) camera platform: the service dispatcher            *)
(* (service_handler), the per-camera adapter (LogiCam) and its MJPEG       *)
(* stream proxy (handle_async_mjpeg_stream), as state machines.            *)
(*                                                                         *)
(* Everything runs on one asyncio event loop: a coroutine runs without     *)
(* interruption until it reaches an await that really suspends, and only   *)
(* then can another task, a completion or a cancellation be processed.     *)
(***************************************************************************)
EXTENDS Integers, Sequences, FiniteSets, TLC

VARIABLES
    service,          \* service.service of the call being handled, or "none"
    data,             \* service.data: a record; the key entity_id may be absent
    pc,               \* position of the task running service_handler
    target_devices,   \* the list the for-loop of service_handler iterates
    idx,              \* index of the loop's current target (1-based)
    todo,             \* Device Handle setters set_config has still to call
    calls,            \* calls received by the Device Handles, in order
    errors,           \* records logged through _LOGGER.error, in order
    opResult,         \* per adapter: how its operation ended for the dispatcher
    ops,              \* per adapter: state of the shielded write/record task
    cancelRequested,  \* the host has cancelled the task that issued the command
    spc,              \* position of the task running handle_async_mjpeg_stream
    scam,             \* the adapter serving the stream request (self)
    opened,           \* open_camera has returned: the transcoding process runs
    readerObtained,   \* get_reader has returned a reader
    openOutcome,      \* how the await of open_camera ended
    forwarded,        \* chunks written to the HTTP response so far
    tryOutcome,       \* how the try block ended (pending while finally runs)
    closeCalls,       \* number of stream.close() calls made
    closeOutcome,     \* how stream.close() ended
    result            \* what handle_async_mjpeg_stream gave its caller

dvars == <<service, data, pc, target_devices, idx, todo, calls, errors,
           opResult, ops, cancelRequested>>
svars == <<spc, scam, opened, readerObtained, openOutcome, forwarded, tryOutcome,
           closeCalls, closeOutcome, result>>
vars == <<dvars, svars>>

----------------------------------------------------------------------------
(* Bounds of the model *)

NumCams == 3
MaxDuration == 2
MaxChunks == 2

----------------------------------------------------------------------------
(* Constants of the platform *)

SERVICE_SET_CONFIG == "logi_circle_set_config"
SERVICE_LIVESTREAM_SNAPSHOT == "logi_circle_livestream_snapshot"
SERVICE_LIVESTREAM_RECORD == "logi_circle_livestream_record"

BATTERY_SAVING_MODE_KEY == "BATTERY_SAVING"
PRIVACY_MODE_KEY == "PRIVACY_MODE"
LED_MODE_KEY == "LED"

\* The list built by async_setup_platform: one LogiCam per device, in order.
cameras == [i \in 1..NumCams |-> i]

\* The entity identifier of an adapter.
entity_id(dev) == dev

\* Identifiers a call may name: those of the adapters and one (0) of no adapter.
EntityIds == 0..NumCams

\* Values set_config may receive as mode: the three keys the registered schema
\* admits, and one it does not (set_config itself accepts any value).
ModeValues == {BATTERY_SAVING_MODE_KEY, LED_MODE_KEY, PRIVACY_MODE_KEY, "OTHER"}

Durations == 1..MaxDuration

\* Filename templates: a directory, and whether the file name is taken from the
\* entity_id variable; "invalid" is a template whose rendering raises.
Templates == [base : {"allowed", "forbidden"}, per_entity : BOOLEAN]
                 \cup {[base |-> "invalid", per_entity |-> FALSE]}

ServiceData(s) ==
    LET params == IF s = SERVICE_SET_CONFIG
                    THEN [mode : ModeValues, value : BOOLEAN]
                  ELSE IF s = SERVICE_LIVESTREAM_SNAPSHOT
                    THEN [filename : Templates]
                  ELSE [filename : Templates, duration : Durations]
    IN  params \cup
        { [k \in DOMAIN p \cup {"entity_id"} |->
              IF k = "entity_id" THEN ids ELSE p[k]] :
          p \in params, ids \in SUBSET EntityIds }

----------------------------------------------------------------------------
(* service_handler *)

\* params: every item of service.data but entity_id.
Params(d) == [k \in DOMAIN d \ {"entity_id"} |-> d[k]]

\* service.data.get(ATTR_ENTITY_ID) is truthy: the key is there and not empty.
HasEntityIds(d) == "entity_id" \in DOMAIN d /\ d.entity_id # {}

TargetDevices(d) ==
    IF HasEntityIds(d)
      THEN SelectSeq(cameras, LAMBDA dev : entity_id(dev) \in d.entity_id)
      ELSE cameras

----------------------------------------------------------------------------
(* LogiCam.set_config *)

SetterCall(method, value) == [method |-> method, args |-> <<value>>]

\* Faulty variant (refuted by C8): the privacy branch calls the LED setter.
SetConfigCallsWrongSetter(mode, value) ==
    (IF mode = LED_MODE_KEY THEN <<SetterCall("set_led", value)>> ELSE <<>>)
    \o (IF mode = PRIVACY_MODE_KEY
          THEN <<SetterCall("set_led", value)>> ELSE <<>>)
    \o (IF mode = BATTERY_SAVING_MODE_KEY
          THEN <<SetterCall("set_battery_saving_mode", value)>> ELSE <<>>)

\* The Device Handle setters set_config awaits, in order: three independent ifs.
SetConfigCalls(mode, value) ==
    (IF mode = LED_MODE_KEY THEN <<SetterCall("set_led", value)>> ELSE <<>>)
    \o (IF mode = PRIVACY_MODE_KEY
          THEN <<SetterCall("set_privacy_mode", value)>> ELSE <<>>)
    \o (IF mode = BATTERY_SAVING_MODE_KEY
          THEN <<SetterCall("set_battery_saving_mode", value)>> ELSE <<>>)

----------------------------------------------------------------------------
(* LogiCam.livestream_snapshot and LogiCam.download_livestream *)

\* filename.async_render(variables={entity_id: self.entity_id}).
Render(t, dev) ==
    [dir |-> t.base, file |-> IF t.per_entity THEN entity_id(dev) ELSE 0]

RenderRaises(t) == t.base = "invalid"

\* Faulty variant (refuted by C1): the whitelist check lets every path through.
is_allowed_path_any(path) == TRUE

\* hass.config.is_allowed_path: the host's whitelist of directories.
is_allowed_path(path) == path.dir = "allowed"

\* timedelta(seconds=duration)
timedelta(seconds) == [seconds |-> seconds]

\* The Device Handle call of each file operation.
FileCall(s, d, path) ==
    IF s = SERVICE_LIVESTREAM_SNAPSHOT
      THEN [method |-> "get_livestream_image", args |-> <<path>>]
      ELSE [method |-> "record_livestream",
            args |-> <<path, timedelta(d.duration)>>]

\* Faulty variant (refuted by C9): the Device Handle call is awaited, so it has run to its end
\* when the operation returns.
LaunchAwaited(o, dev) == [o EXCEPT ![dev] = "done"]

\* asyncio.shield(coroutine): the coroutine becomes a task of its own, scheduled
\* on the loop; the future shield returns is dropped, not awaited.
Launch(o, dev) == [o EXCEPT ![dev] = "pending"]

\* Faulty variant (refuted by C7): the write/record tasks are cancelled with the caller.
AfterCallerCancelUnshielded(o) ==
    [dev \in DOMAIN o |-> IF o[dev] = "pending" THEN "cancelled" ELSE o[dev]]

\* What cancelling the caller's task does to the shielded tasks: nothing.
AfterCallerCancel(o) == o

----------------------------------------------------------------------------
(* LogiCam.handle_async_mjpeg_stream *)

\* How an awaited call ends: it returns a value or raises an exception.
\* For a return, type is the value returned; for a raise, the exception's type
\* and origin the await that raised it.
Returned(v) == [kind |-> "return", type |-> v, origin |-> "none"]
Raised(type, origin) == [kind |-> "raise", type |-> type, origin |-> origin]
NoOutcome == [kind |-> "none", type |-> "none", origin |-> "none"]

\* Exceptions an await of the handler can raise. CancelledError is the request
\* task being cancelled; ConnectionResetError is the client going away.
DeviceErrors == {"OSError", "CancelledError"}
CopyErrors == {"OSError", "ConnectionResetError", "BrokenPipeError",
               "CancelledError"}
CloseErrors == {"BrokenPipeError", "OSError", "CancelledError"}

\* Faulty variant (refuted by C10): a failed open_camera is not noticed and the handler goes on.
OpenPropagatesNever(o) == FALSE

\* The await of open_camera stands before the try: what it raises leaves the
\* handler at once.
OpenPropagates(o) == o.kind = "raise"

\* Faulty variant (refuted by C3): the process is closed only when the try block returns.
RunsFinallyOnReturnOnly(o) == o.kind = "return"

\* finally: the close runs however the try block ended.
RunsFinally(o) == TRUE

\* Faulty variant (refuted by C6): except Exception instead of except BrokenPipeError.
SuppressedAnyException(e) == e.type # "CancelledError"

\* except BrokenPipeError
Suppressed(e) == e.type = "BrokenPipeError"

\* What the try/finally statement gives the caller, from the outcome t of the
\* try block and the outcome k of stream.close(): the return in the except
\* clause of the finally block replaces whatever the try block had pending.
FinallyResult(t, k) ==
    IF k.kind = "return" THEN t
    ELSE IF Suppressed(k) THEN Returned("None")
    ELSE k

----------------------------------------------------------------------------
Init ==
    /\ service = "none"
    /\ data = [none |-> TRUE]
    /\ pc = "idle"
    /\ target_devices = <<>>
    /\ idx = 0
    /\ todo = <<>>
    /\ calls = <<>>
    /\ errors = <<>>
    /\ opResult = [dev \in 1..NumCams |-> "none"]
    /\ ops = [dev \in 1..NumCams |-> "none"]
    /\ cancelRequested = FALSE
    /\ spc = "idle"
    /\ scam = 0
    /\ opened = FALSE
    /\ readerObtained = FALSE
    /\ openOutcome = NoOutcome
    /\ forwarded = 0
    /\ tryOutcome = NoOutcome
    /\ closeCalls = 0
    /\ closeOutcome = NoOutcome
    /\ result = NoOutcome

Services == {SERVICE_SET_CONFIG, SERVICE_LIVESTREAM_SNAPSHOT,
             SERVICE_LIVESTREAM_RECORD}

\* The host calls service_handler: params, entity_ids and target_devices are
\* computed before the loop starts.
ServiceCall ==
    /\ pc = "idle"
    /\ \E s \in Services : \E d \in ServiceData(s) :
         /\ service' = s
         /\ data' = d
         /\ target_devices' = TargetDevices(d)
    /\ idx' = 1
    /\ pc' = "running"
    /\ UNCHANGED <<todo, calls, errors, opResult, ops, cancelRequested, svars>>

Target == target_devices[idx]

\* The loop is exhausted: service_handler returns.
HandlerReturns ==
    /\ pc = "running"
    /\ idx > Len(target_devices)
    /\ pc' = "returned"
    /\ UNCHANGED <<service, data, target_devices, idx, todo, calls, errors,
                   opResult, ops, cancelRequested, svars>>

\* await target_device.set_config(**params): the call starts.
SetConfigBegin ==
    /\ pc = "running"
    /\ idx <= Len(target_devices)
    /\ service = SERVICE_SET_CONFIG
    /\ opResult[Target] = "none"
    /\ opResult' = [opResult EXCEPT ![Target] = "active"]
    /\ todo' = SetConfigCalls(Params(data).mode, Params(data).value)
    /\ UNCHANGED <<service, data, pc, target_devices, idx, calls, errors, ops,
                   cancelRequested, svars>>

\* set_config runs to its next await of a setter, or to its end.
SetConfigStep ==
    /\ pc = "running"
    /\ idx <= Len(target_devices)
    /\ service = SERVICE_SET_CONFIG
    /\ opResult[Target] = "active"
    /\ IF todo = <<>>
         THEN /\ opResult' = [opResult EXCEPT ![Target] = "returned"]
              /\ idx' = idx + 1
              /\ UNCHANGED <<pc, todo, calls>>
         ELSE /\ calls' = Append(calls, [cam |-> Target,
                                         method |-> Head(todo).method,
                                         args |-> Head(todo).args])
              /\ todo' = Tail(todo)
              /\ pc' = "awaiting"
              /\ UNCHANGED <<opResult, idx>>
    /\ UNCHANGED <<service, data, target_devices, errors, ops,
                   cancelRequested, svars>>

\* The awaited setter returns.
SetterReturns ==
    /\ pc = "awaiting"
    /\ pc' = "running"
    /\ UNCHANGED <<service, data, target_devices, idx, todo, calls, errors,
                   opResult, ops, cancelRequested, svars>>

\* The awaited setter raises: nothing catches it in set_config or in the loop.
SetterRaises ==
    /\ pc = "awaiting"
    /\ pc' = "raised"
    /\ opResult' = [opResult EXCEPT ![Target] = "raised"]
    /\ UNCHANGED <<service, data, target_devices, idx, todo, calls, errors,
                   ops, cancelRequested, svars>>

\* await target_device.livestream_snapshot(**params) or
\* await target_device.download_livestream(**params): neither suspends.
FileOperation ==
    /\ pc = "running"
    /\ idx <= Len(target_devices)
    /\ service \in {SERVICE_LIVESTREAM_SNAPSHOT, SERVICE_LIVESTREAM_RECORD}
    /\ LET t == Params(data).filename
           path == Render(t, Target)
       IN  IF RenderRaises(t)
             THEN /\ pc' = "raised"
                  /\ opResult' = [opResult EXCEPT ![Target] = "raised"]
                  /\ UNCHANGED <<idx, calls, errors, ops>>
           ELSE IF ~ is_allowed_path(path)
             THEN /\ errors' = Append(errors, [cam |-> Target, path |-> path])
                  /\ opResult' = [opResult EXCEPT ![Target] = "returned"]
                  /\ idx' = idx + 1
                  /\ UNCHANGED <<pc, calls, ops>>
           ELSE /\ calls' = Append(calls,
                      [cam |-> Target,
                       method |-> FileCall(service, Params(data), path).method,
                       args |-> FileCall(service, Params(data), path).args])
                /\ ops' = Launch(ops, Target)
                /\ opResult' = [opResult EXCEPT ![Target] = "returned"]
                /\ idx' = idx + 1
                /\ UNCHANGED <<pc, errors>>
    /\ UNCHANGED <<service, data, target_devices, todo, cancelRequested, svars>>

\* The write/record task of an adapter ends: with its result ...
OpCompletes(dev) ==
    /\ pc # "running"
    /\ ops[dev] = "pending"
    /\ ops' = [ops EXCEPT ![dev] = "done"]
    /\ UNCHANGED <<service, data, pc, target_devices, idx, todo, calls, errors,
                   opResult, cancelRequested, svars>>

\* ... or with its own exception (never retrieved by anyone).
OpFails(dev) ==
    /\ pc # "running"
    /\ ops[dev] = "pending"
    /\ ops' = [ops EXCEPT ![dev] = "failed"]
    /\ UNCHANGED <<service, data, pc, target_devices, idx, todo, calls, errors,
                   opResult, cancelRequested, svars>>

\* The host cancels the task that issued the command: a task suspended in an
\* await gets CancelledError there; a task that has ended is left as it is.
CancelCaller ==
    /\ pc \in {"awaiting", "returned", "raised"}
    /\ ~ cancelRequested
    /\ cancelRequested' = TRUE
    /\ ops' = AfterCallerCancel(ops)
    /\ IF pc = "awaiting"
         THEN /\ pc' = "cancelled"
              /\ opResult' = [opResult EXCEPT ![Target] = "cancelled"]
         ELSE UNCHANGED <<pc, opResult>>
    /\ UNCHANGED <<service, data, target_devices, idx, todo, calls, errors,
                   svars>>

Next ==
    \/ ServiceCall
    \/ HandlerReturns
    \/ SetConfigBegin
    \/ SetConfigStep
    \/ SetterReturns
    \/ SetterRaises
    \/ FileOperation
    \/ \E dev \in 1..NumCams : OpCompletes(dev)
    \/ \E dev \in 1..NumCams : OpFails(dev)
    \/ CancelCaller

Spec == Init /\ [][Next]_vars

\* The host's camera view calls the handler for a request on one adapter.
StreamRequest ==
    /\ spc = "idle"
    /\ \E dev \in 1..NumCams : scam' = dev
    /\ spc' = "last_activity"
    /\ UNCHANGED <<opened, readerObtained, openOutcome, forwarded, tryOutcome,
                   closeCalls, closeOutcome, result, dvars>>

\* last_activity = await self._camera.last_activity
LastActivity ==
    /\ spc = "last_activity"
    /\ \/ /\ spc' = "open_camera"
          /\ UNCHANGED result
       \/ \E e \in DeviceErrors :
            /\ result' = Raised(e, "last_activity")
            /\ spc' = "done"
    /\ UNCHANGED <<scam, opened, readerObtained, openOutcome, forwarded,
                   tryOutcome, closeCalls, closeOutcome, dvars>>

\* await stream.open_camera(...)
OpenCamera ==
    /\ spc = "open_camera"
    /\ \E o \in {Returned("None")} \cup
                {Raised(e, "open_camera") : e \in DeviceErrors} :
         /\ openOutcome' = o
         /\ IF OpenPropagates(o)
              THEN /\ result' = o
                   /\ spc' = "done"
                   /\ UNCHANGED opened
              ELSE /\ opened' = (o.kind = "return")
                   /\ spc' = "get_reader"
                   /\ UNCHANGED result
    /\ UNCHANGED <<scam, readerObtained, forwarded, tryOutcome, closeCalls,
                   closeOutcome, dvars>>

\* The try block ends with outcome o: the finally block calls stream.close().
LeaveTry(o) ==
    /\ tryOutcome' = o
    /\ IF RunsFinally(o)
         THEN /\ closeCalls' = closeCalls + 1
              /\ spc' = "closing"
              /\ UNCHANGED result
         ELSE /\ result' = o
              /\ spc' = "done"
              /\ UNCHANGED closeCalls

\* stream_reader = await stream.get_reader()
GetReader ==
    /\ spc = "get_reader"
    /\ \/ /\ readerObtained' = TRUE
          /\ spc' = "copy"
          /\ UNCHANGED <<tryOutcome, closeCalls, result>>
       \/ /\ \E e \in DeviceErrors : LeaveTry(Raised(e, "get_reader"))
          /\ UNCHANGED readerObtained
    /\ UNCHANGED <<scam, opened, openOutcome, forwarded, closeOutcome, dvars>>

\* async_aiohttp_proxy_stream forwards one chunk to the HTTP response.
CopyChunk ==
    /\ spc = "copy"
    /\ forwarded < MaxChunks
    /\ forwarded' = forwarded + 1
    /\ UNCHANGED <<spc, scam, opened, readerObtained, openOutcome, tryOutcome,
                   closeCalls, closeOutcome, result, dvars>>

\* The source ends: async_aiohttp_proxy_stream returns the response.
CopyEnds ==
    /\ spc = "copy"
    /\ LeaveTry(Returned("response"))
    /\ UNCHANGED <<scam, opened, readerObtained, openOutcome, forwarded,
                   closeOutcome, dvars>>

\* The copy raises, or the request task is cancelled during it.
CopyRaises ==
    /\ spc = "copy"
    /\ \E e \in CopyErrors : LeaveTry(Raised(e, "copy"))
    /\ UNCHANGED <<scam, opened, readerObtained, openOutcome, forwarded,
                   closeOutcome, dvars>>

\* await stream.close() ends, and with it the handler.
CloseEnds ==
    /\ spc = "closing"
    /\ \E k \in {Returned("None")} \cup {Raised(e, "close") : e \in CloseErrors} :
         /\ closeOutcome' = k
         /\ result' = FinallyResult(tryOutcome, k)
    /\ spc' = "done"
    /\ UNCHANGED <<scam, opened, readerObtained, openOutcome, forwarded,
                   tryOutcome, closeCalls, dvars>>

NextStream ==
    \/ StreamRequest
    \/ LastActivity
    \/ OpenCamera
    \/ GetReader
    \/ CopyChunk
    \/ CopyEnds
    \/ CopyRaises
    \/ CloseEnds

StreamSpec == Init /\ [][NextStream]_vars

\* The loop runs a coroutine that is ready until it suspends or ends, and a
\* task launched on the loop gets its turns: the Device Handle's write/record
\* ends, one way or the other.
FairSpec ==
    /\ Init /\ [][Next]_vars
    /\ WF_vars(HandlerReturns \/ SetConfigBegin \/ SetConfigStep \/ FileOperation)
    /\ \A dev \in 1..NumCams : WF_vars(OpCompletes(dev) \/ OpFails(dev))

----------------------------------------------------------------------------
(* Properties *)

FileServices == {SERVICE_LIVESTREAM_SNAPSHOT, SERVICE_LIVESTREAM_RECORD}

CallsIn(log, dev) == SelectSeq(log, LAMBDA r : r.cam = dev)
CallsOf(dev) == CallsIn(calls, dev)
ErrorsIn(log, dev) == SelectSeq(log, LAMBDA r : r.cam = dev)
ErrorsOf(dev) == ErrorsIn(errors, dev)

\* The adapter's operation has been invoked by the dispatcher and has ended.
Ended(dev) == opResult[dev] \in {"returned", "raised", "cancelled"}

\* The path the file operation of adapter dev renders in the current call.
RenderedPath(dev) ==
    [dir |-> data.filename.base,
     file |-> IF data.filename.per_entity THEN dev ELSE 0]

\* The current call is a file operation whose rendering gives a path in the
\* given directory.
RendersInto(dir) ==
    /\ service \in FileServices
    /\ data.filename.base = dir

\* C1: an invocation of livestream_snapshot or download_livestream whose
\* rendered path the whitelist check rejects makes no Device Handle call,
\* launches no write/record, logs exactly one error (naming that path) and
\* returns normally to the dispatcher.
C1_RejectedPathNoWrite ==
    \A dev \in 1..NumCams :
        (RendersInto("forbidden") /\ opResult[dev] # "none") =>
            /\ CallsOf(dev) = <<>>
            /\ ops[dev] = "none"
            /\ ErrorsOf(dev) = <<[cam |-> dev, path |-> RenderedPath(dev)]>>
            /\ opResult[dev] = "returned"

C1_Witness ==
    /\ RendersInto("forbidden")
    /\ pc = "returned"
    /\ Len(target_devices) = 2
    /\ Len(errors) = 2
    /\ calls = <<>>

\* C2: with an explicit target set the operation is invoked on exactly the
\* known adapters whose entity identifier is in the set, and with no target
\* set on every known adapter: never on an adapter outside that selection,
\* and on all of the selection once service_handler has ended.
C2_DispatchToExactlyTheTargets ==
    LET known == {cameras[i] : i \in 1..Len(cameras)}
        selection == IF "entity_id" \in DOMAIN data
                       THEN {dev \in known : entity_id(dev) \in data.entity_id}
                       ELSE known
        invoked == {dev \in known : opResult[dev] # "none"}
    IN  service # "none" =>
            /\ invoked \subseteq selection
            /\ pc \in {"returned", "raised"} => invoked = selection

\* C3: once open_camera has returned, stream.close() is called exactly once
\* before the handler returns or raises, however the try block ended; it is
\* never called twice.
C3_ClosedExactlyOnce ==
    /\ closeCalls <= 1
    /\ (opened /\ spc = "done") => closeCalls = 1

C3_Witness ==
    /\ spc = "done"
    /\ opened
    /\ tryOutcome = Raised("CancelledError", "copy")
    /\ forwarded > 0
    /\ closeCalls = 1

\* C4: once service_handler has ended, returning or raising, the operation has
\* been invoked on every target adapter: a failure on one target does not keep
\* the remaining targets from being served.
C4_FailureDoesNotAbortDispatch ==
    pc \in {"returned", "raised"} =>
        \A i \in 1..Len(target_devices) : opResult[target_devices[i]] # "none"

\* C5: an I/O failure raised during the byte copy reaches the caller of the
\* handler as an error, whatever stream.close() does afterwards.
C5_CopyFailureSurfaced ==
    (/\ spc = "done"
     /\ tryOutcome.kind = "raise"
     /\ tryOutcome.origin = "copy"
     /\ tryOutcome.type \in {"OSError", "ConnectionResetError"})
        => result.kind = "raise"

\* C6: when the copy has ended and stream.close() raises, a BrokenPipeError
\* gives the caller no error, and any other exception of close reaches the
\* caller.
C6_CloseFailure ==
    (spc = "done" /\ readerObtained /\ closeOutcome.kind = "raise") =>
        IF closeOutcome.type = "BrokenPipeError"
          THEN result.kind = "return"
          ELSE result = closeOutcome

C6_Witness ==
    /\ spc = "done"
    /\ readerObtained
    /\ tryOutcome = Returned("response")
    /\ closeOutcome = Raised("BrokenPipeError", "close")
    /\ result.kind = "return"

\* C7: a write/record task that has been launched is never cancelled, also
\* when the task that issued the command is cancelled, and it ends: with its
\* result or with its own failure.
C7_ShieldedFromCallerCancel ==
    \A dev \in 1..NumCams :
        /\ [](ops[dev] # "cancelled")
        /\ [](ops[dev] = "pending" => <>(ops[dev] \in {"done", "failed"}))

C7_Witness ==
    /\ cancelRequested
    /\ \E dev \in 1..NumCams : ops[dev] = "pending"

\* C8: an invocation of set_config that has ended has made exactly one call of
\* the Device Handle, the setter of its mode with its value, when the mode is
\* LED, PRIVACY_MODE or BATTERY_SAVING, and for any other mode no call, and
\* then it has returned without an error.
C8_SetConfigCallsMatchingSetter ==
    \A dev \in 1..NumCams :
        (service = SERVICE_SET_CONFIG /\ Ended(dev)) =>
            LET setter(name) ==
                    <<[cam |-> dev, method |-> name, args |-> <<data.value>>]>>
            IN  /\ data.mode = "LED" => CallsOf(dev) = setter("set_led")
                /\ data.mode = "PRIVACY_MODE" =>
                       CallsOf(dev) = setter("set_privacy_mode")
                /\ data.mode = "BATTERY_SAVING" =>
                       CallsOf(dev) = setter("set_battery_saving_mode")
                /\ data.mode \notin {"LED", "PRIVACY_MODE", "BATTERY_SAVING"} =>
                       /\ CallsOf(dev) = <<>>
                       /\ opResult[dev] = "returned"

C8_Witness ==
    /\ service = SERVICE_SET_CONFIG
    /\ data.mode = "PRIVACY_MODE"
    /\ data.value = FALSE
    /\ pc = "returned"
    /\ Len(calls) = 2

\* The Device Handle call an accepted path must lead to.
C9_ExpectedCall(dev) ==
    IF service = SERVICE_LIVESTREAM_SNAPSHOT
      THEN [cam |-> dev, method |-> "get_livestream_image",
            args |-> <<RenderedPath(dev)>>]
      ELSE [cam |-> dev, method |-> "record_livestream",
            args |-> <<RenderedPath(dev), [seconds |-> data.duration]>>]

\* C9: an invocation of livestream_snapshot or download_livestream whose
\* rendered path the whitelist check accepts makes the Device Handle call
\* exactly once, with that path (and the duration), logs no error, and at the
\* moment it returns to the dispatcher the call has not completed.
C9_AcceptedPathLaunchedOnce ==
    /\ [](\A dev \in 1..NumCams :
            (RendersInto("allowed") /\ opResult[dev] # "none") =>
                /\ CallsOf(dev) = <<C9_ExpectedCall(dev)>>
                /\ ErrorsOf(dev) = <<>>
                /\ opResult[dev] = "returned"
                /\ ops[dev] # "none")
    /\ [][\A dev \in 1..NumCams :
            (RendersInto("allowed") /\ opResult[dev] = "none"
                /\ opResult'[dev] # "none") => ops'[dev] = "pending"]_vars

C9_Witness ==
    /\ service = SERVICE_LIVESTREAM_RECORD
    /\ data.filename = [base |-> "allowed", per_entity |-> TRUE]
    /\ data.duration = MaxDuration
    /\ pc = "returned"
    /\ Len(calls) = 2
    /\ \E dev \in 1..NumCams : ops[dev] = "pending"

\* C10: when open_camera raises, the handler ends with that exception: no
\* reader is obtained, nothing is forwarded to the HTTP response and nothing
\* is returned.
C10_OpenFailurePropagates ==
    openOutcome.kind = "raise" =>
        /\ spc = "done"
        /\ result = openOutcome
        /\ ~ readerObtained
        /\ forwarded = 0

C10_Witness ==
    /\ spc = "done"
    /\ openOutcome = Raised("OSError", "open_camera")
    /\ result = Raised("OSError", "open_camera")

====
